---- MODULE Spec2Model ----
(***************************************************************************)
(* Roborock scene selector (RoborockSceneSelectEntity) and scene trigger   *)
(* (RoborockSceneTriggerButton) of custom_components/roborock/             *)
(* scene_trigger.py, for one device and its coordinator.                   *)
(*                                                                         *)
(* The event loop is single threaded: a coroutine runs without             *)
(* interruption from one await of a remote call (get_scenes,               *)
(* execute_scene) to the next, so every action below is one such stretch.  *)
(***************************************************************************)
EXTENDS Integers, Sequences, FiniteSets, TLC

\* ------------------------------------------------------------------ bounds
\* longest scene list get_scenes returns
MaxScenes == 2

\* ------------------------------------------------------------ value domains
\* Python's None, a token outside Strings
None == "None"

\* the device the selector and the trigger are built for
device_id == "dev1"

\* names a remote scene can carry
SceneNames == {"A", "B"}

\* strings a caller can hand to async_select_option
Strings == {"", "A", "B"}

\* exceptions the cloud client can raise
Errors == {"E1", "E2"}

\* A scene identifier is a Python int (t = "int", value v) or a str of
\* decimal digits (t = "str", characters s); NoId is None.
IntId(n) == [t |-> "int", v |-> n, s |-> <<>>]
StrId(cs) == [t |-> "str", v |-> 0, s |-> cs]
NoId == [t |-> "none", v |-> 0, s |-> <<>>]
SceneIds == {IntId(0), IntId(1), StrId(<<"1", "2">>)}

\* HomeDataScene objects: an id and a name
Scenes == [id : SceneIds, name : SceneNames]

\* Lists get_scenes can return.  The identifier is the cloud service's key of
\* a scene, so one list holds each identifier at most once; names can repeat.
DistinctIds(l) == \A j, k \in 1..Len(l) : (j # k) => (l[j].id # l[k].id)
SceneLists ==
    {l \in UNION {[1..n -> Scenes] : n \in 0..MaxScenes} : DistinctIds(l)}

\* ----------------------------------------------------------- pure helpers
\* Python truthiness of a str | None
TruthyName(x) == x # None /\ x # ""

\* Python truthiness of a scene id: None, 0 and "" are falsy
TruthyId(i) ==
    \/ i.t = "int" /\ i.v # 0
    \/ i.t = "str" /\ i.s # <<>>

Digits == <<"0", "1", "2", "3", "4", "5", "6", "7", "8", "9">>
DigitVal(c) == (CHOOSE k \in 1..10 : Digits[k] = c) - 1

RECURSIVE ParseDigits(_)
ParseDigits(cs) ==
    IF cs = <<>> THEN 0
    ELSE 10 * ParseDigits(SubSeq(cs, 1, Len(cs) - 1)) + DigitVal(cs[Len(cs)])

\* int(scene_id)
ToInt(i) == IF i.t = "int" THEN i.v ELSE ParseDigits(i.s)

\* the dict {} the selector's __init__ puts on the coordinator
EmptyDict == [x \in {} |-> None]

\* dict.get(key): None when the key is absent
DictGet(m, k) == IF k \in DOMAIN m THEN m[k] ELSE None

\* m[k] = v on a dict
DictSet(m, k, v) == [x \in (DOMAIN m) \cup {k} |-> IF x = k THEN v ELSE m[x]]

\* [scene.name for scene in scenes]
NamesOf(scenes) == [k \in 1..Len(scenes) |-> scenes[k].name]

\* a scan that keeps going after a match: the last match wins
RECURSIVE ScanNoBreak(_, _, _, _)
ScanNoBreak(scenes, scene_name, k, found) ==
    IF k > Len(scenes) THEN found
    ELSE IF scenes[k].name = scene_name
         THEN ScanNoBreak(scenes, scene_name, k + 1, scenes[k].id)
         ELSE ScanNoBreak(scenes, scene_name, k + 1, found)
FindSceneIdLast(scenes, scene_name) == ScanNoBreak(scenes, scene_name, 1, NoId)

\* a scan that takes the first scene whatever its name
FindSceneIdAny(scenes, scene_name) ==
    IF scenes = <<>> THEN NoId ELSE scenes[1].id

\* the loop of async_press: for scene in scenes: if scene.name == scene_name:
\* scene_id = scene.id; break.  scene_id stays None without a match.
RECURSIVE ScanFrom(_, _, _)
ScanFrom(scenes, scene_name, k) ==
    IF k > Len(scenes) THEN NoId
    ELSE IF scenes[k].name = scene_name THEN scenes[k].id
         ELSE ScanFrom(scenes, scene_name, k + 1)
FindSceneId(scenes, scene_name) == ScanFrom(scenes, scene_name, 1)

\* ------------------------------------------------------------------- state
VARIABLES
    sel_scenes,             \* selector._scenes
    attr_options,           \* selector._attr_options
    selected_scene_name,    \* selector._selected_scene_name
    selected_scenes,        \* coordinator.selected_scenes, device id -> name
    attach,                 \* the async_added_to_hass coroutine of the selector
    press,                  \* the async_press coroutine of the trigger
    last                    \* the operation step that ran last

vars == <<sel_scenes, attr_options, selected_scene_name, selected_scenes,
          attach, press, last>>

selector == <<sel_scenes, attr_options, selected_scene_name>>

\* the current_option property
current_option == selected_scene_name

IdlePress ==
    [pc |-> "idle", scene_name |-> None, scenes |-> <<>>, scene_id |-> NoId,
     calls |-> <<>>, fetch_err |-> None, exec_err |-> None, result |-> None]

\* After async_setup_entry built the selector and the trigger: the selector's
\* __init__ leaves empty lists, no selected name, and an empty selected_scenes
\* dict on the coordinator.
Init ==
    /\ sel_scenes = <<>>
    /\ attr_options = <<>>
    /\ selected_scene_name = None
    /\ selected_scenes = EmptyDict
    /\ attach = [pc |-> "new", scenes |-> <<>>, result |-> None]
    /\ press = IdlePress
    /\ last = [op |-> "init", arg |-> None]

\* ------------------------------------------------- selector: attach, select
\* the name _fetch_scenes leaves selected, taking the last scene as default
DefaultNameLast(scenes, cur) ==
    IF scenes # <<>> THEN scenes[Len(scenes)].name ELSE cur

\* if scenes: self._selected_scene_name = scenes[0].name
DefaultName(scenes, cur) ==
    IF scenes # <<>> THEN scenes[1].name ELSE cur

\* async_added_to_hass up to the await of get_scenes in _fetch_scenes
AttachStart ==
    /\ attach.pc = "new"
    /\ attach' = [attach EXCEPT !.pc = "fetching"]
    /\ last' = [op |-> "attach_start", arg |-> None]
    /\ UNCHANGED <<selector, selected_scenes, press>>

\* a _fetch_scenes without the store into the coordinator's dict
AttachFetchOkNoStore(scenes) ==
    /\ attach.pc = "fetching"
    /\ sel_scenes' = scenes
    /\ attr_options' = NamesOf(scenes)
    /\ selected_scene_name' = DefaultName(scenes, selected_scene_name)
    /\ attach' = [pc |-> "attached", scenes |-> scenes, result |-> "ok"]
    /\ last' = [op |-> "attach_ok", arg |-> None]
    /\ UNCHANGED <<selected_scenes, press>>

\* get_scenes returns scenes: the rest of _fetch_scenes
AttachFetchOk(scenes) ==
    /\ attach.pc = "fetching"
    /\ sel_scenes' = scenes
    /\ attr_options' = NamesOf(scenes)
    /\ selected_scene_name' = DefaultName(scenes, selected_scene_name)
    /\ selected_scenes' = DictSet(selected_scenes, device_id, selected_scene_name')
    /\ attach' = [pc |-> "attached", scenes |-> scenes, result |-> "ok"]
    /\ last' = [op |-> "attach_ok", arg |-> None]
    /\ UNCHANGED press

\* a _fetch_scenes that swallows the error and goes on with no scenes
AttachFetchErrSwallowed(e) ==
    /\ attach.pc = "fetching"
    /\ sel_scenes' = <<>>
    /\ attr_options' = <<>>
    /\ selected_scenes' = DictSet(selected_scenes, device_id, selected_scene_name)
    /\ attach' = [pc |-> "failed", scenes |-> <<>>, result |-> "ok"]
    /\ last' = [op |-> "attach_err", arg |-> e]
    /\ UNCHANGED <<selected_scene_name, press>>

\* get_scenes raises e: nothing catches it, async_added_to_hass raises e
AttachFetchErr(e) ==
    /\ attach.pc = "fetching"
    /\ attach' = [pc |-> "failed", scenes |-> <<>>, result |-> e]
    /\ last' = [op |-> "attach_err", arg |-> e]
    /\ UNCHANGED <<selector, selected_scenes, press>>

\* an async_select_option that forgets the coordinator's dict
SelectOptionLocalOnly(option) ==
    /\ selected_scene_name' = option
    /\ last' = [op |-> "select", arg |-> option]
    /\ UNCHANGED <<sel_scenes, attr_options, selected_scenes, attach, press>>

\* async_select_option(option): no membership test, no await
async_select_option(option) ==
    /\ selected_scene_name' = option
    /\ selected_scenes' = DictSet(selected_scenes, device_id, option)
    /\ last' = [op |-> "select", arg |-> option]
    /\ UNCHANGED <<sel_scenes, attr_options, attach, press>>

\* ------------------------------------------------------ trigger: async_press
\* async_press from its start to the await of get_scenes, or to its end when
\* the stored name is None or empty
PressStart ==
    /\ press.pc = "idle"
    /\ LET scene_name == DictGet(selected_scenes, device_id) IN
       press' = IF TruthyName(scene_name)
                THEN [press EXCEPT !.pc = "fetching", !.scene_name = scene_name]
                ELSE [press EXCEPT !.pc = "returned", !.scene_name = scene_name,
                                   !.result = "ok"]
    /\ last' = [op |-> "press_start", arg |-> None]
    /\ UNCHANGED <<selector, selected_scenes, attach>>

\* the coroutine after get_scenes returned scenes, resolving name: the scan,
\* then the call of execute_scene(int(scene_id)) when scene_id is truthy
AfterFetch(p, scenes, name) ==
    LET scene_id == FindSceneId(scenes, name) IN
    IF TruthyId(scene_id)
    THEN [p EXCEPT !.pc = "executing", !.scenes = scenes, !.scene_id = scene_id,
                   !.calls = Append(p.calls, ToInt(scene_id))]
    ELSE [p EXCEPT !.pc = "returned", !.scenes = scenes, !.scene_id = scene_id,
                   !.result = "ok"]

\* a resume that looks the selection up again instead of using its local
PressFetchOkReread(scenes) ==
    /\ press.pc = "fetching"
    /\ press' = AfterFetch(press, scenes, DictGet(selected_scenes, device_id))
    /\ last' = [op |-> "press_fetch_ok", arg |-> None]
    /\ UNCHANGED <<selector, selected_scenes, attach>>

\* get_scenes returns scenes to the press
PressFetchOk(scenes) ==
    /\ press.pc = "fetching"
    /\ press' = AfterFetch(press, scenes, press.scene_name)
    /\ last' = [op |-> "press_fetch_ok", arg |-> None]
    /\ UNCHANGED <<selector, selected_scenes, attach>>

\* a press that lets the error of get_scenes escape
PressFetchErrRaised(e) ==
    /\ press.pc = "fetching"
    /\ press' = [press EXCEPT !.pc = "returned", !.fetch_err = e, !.result = e]
    /\ last' = [op |-> "press_fetch_err", arg |-> e]
    /\ UNCHANGED <<selector, selected_scenes, attach>>

\* get_scenes raises e: caught and logged, scene_id stays None, the warning
\* branch runs and the press returns
PressFetchErr(e) ==
    /\ press.pc = "fetching"
    /\ press' = [press EXCEPT !.pc = "returned", !.fetch_err = e, !.result = "ok"]
    /\ last' = [op |-> "press_fetch_err", arg |-> e]
    /\ UNCHANGED <<selector, selected_scenes, attach>>

\* execute_scene returns: logged, the press returns
PressExecOk ==
    /\ press.pc = "executing"
    /\ press' = [press EXCEPT !.pc = "returned", !.result = "ok"]
    /\ last' = [op |-> "press_exec_ok", arg |-> None]
    /\ UNCHANGED <<selector, selected_scenes, attach>>

\* a press that logs the error of execute_scene and returns
PressExecErrSwallowed(e) ==
    /\ press.pc = "executing"
    /\ press' = [press EXCEPT !.pc = "returned", !.exec_err = e, !.result = "ok"]
    /\ last' = [op |-> "press_exec_err", arg |-> e]
    /\ UNCHANGED <<selector, selected_scenes, attach>>

\* execute_scene raises e: logged, then the bare raise re-raises e
PressExecErr(e) ==
    /\ press.pc = "executing"
    /\ press' = [press EXCEPT !.pc = "returned", !.exec_err = e, !.result = e]
    /\ last' = [op |-> "press_exec_err", arg |-> e]
    /\ UNCHANGED <<selector, selected_scenes, attach>>

\* the finished coroutine is gone; the button can be pressed again
PressEnd ==
    /\ press.pc = "returned"
    /\ press' = IdlePress
    /\ last' = [op |-> "press_end", arg |-> None]
    /\ UNCHANGED <<selector, selected_scenes, attach>>

Next ==
    \/ AttachStart
    \/ \E scenes \in SceneLists : AttachFetchOk(scenes)
    \/ \E e \in Errors : AttachFetchErr(e)
    \/ \E option \in Strings : async_select_option(option)
    \/ PressStart
    \/ \E scenes \in SceneLists : PressFetchOk(scenes)
    \/ \E e \in Errors : PressFetchErr(e)
    \/ PressExecOk
    \/ \E e \in Errors : PressExecErr(e)
    \/ PressEnd

Spec == Init /\ [][Next]_vars

\* ------------------------------------------------------------------ claims
HasName(scenes, n) == \E k \in 1..Len(scenes) : scenes[k].name = n

\* position of the first scene named n
IsFirstMatch(scenes, n, k) ==
    /\ k \in 1..Len(scenes)
    /\ scenes[k].name = n
    /\ \A j \in 1..(k - 1) : scenes[j].name # n

\* the press holds the list get_scenes returned to it
Fetched ==
    /\ press.pc \in {"executing", "returned"}
    /\ TruthyName(press.scene_name)
    /\ press.fetch_err = None

StoredName == DictGet(selected_scenes, device_id)

\* C1: whenever the list fetched by a press holds a scene with the stored
\* name, whatever its identifier, the press makes exactly one execute_scene
\* call, carrying the integer of the identifier of such a scene.
C1_ExecutesNamedScene ==
    (Fetched /\ HasName(press.scenes, press.scene_name)) =>
        /\ Len(press.calls) = 1
        /\ \E k \in 1..Len(press.scenes) :
              /\ press.scenes[k].name = press.scene_name
              /\ press.calls[1] = ToInt(press.scenes[k].id)

\* C2: a press calls execute_scene only with a stored name that is present
\* and non-empty and that the list fetched in the same press contains; a
\* press that ends without these (no selection, name absent from the list,
\* empty list) has made no call and returns without error.
C2_ExecOnlyIfResolved ==
    /\ (last.op = "press_start") => (press.scene_name = StoredName)
    /\ (press.calls # <<>>) =>
          (Fetched /\ HasName(press.scenes, press.scene_name))
    /\ (/\ press.pc = "returned"
        /\ \/ ~TruthyName(press.scene_name)
           \/ press.scenes = <<>>
           \/ ~HasName(press.scenes, press.scene_name)) =>
          (press.calls = <<>> /\ press.result = "ok")

C2_Witness ==
    /\ press.pc = "returned"
    /\ Fetched
    /\ press.scenes # <<>>
    /\ ~HasName(press.scenes, press.scene_name)
    /\ press.calls = <<>>
    /\ press.result = "ok"

\* C3: when execute_scene raised in a press, the press ends raising that
\* same error, having called execute_scene once.
C3_ExecErrorReraised ==
    (press.exec_err # None) =>
        /\ press.pc = "returned"
        /\ press.result = press.exec_err
        /\ Len(press.calls) = 1

C3_Witness ==
    /\ press.exec_err \in Errors
    /\ press.result = press.exec_err
    /\ Len(press.calls) = 1

\* C4: when get_scenes raised in a press, the press returns normally, has
\* made no execute_scene call, and the step that caught the error left the
\* stored selection as it was.
C4_FetchErrorCaught ==
    /\ [](press.fetch_err # None =>
            (press.pc = "returned" /\ press.result = "ok" /\ press.calls = <<>>))
    /\ [][(press.pc = "fetching" /\ press'.fetch_err # None) =>
            UNCHANGED <<selected_scenes, selected_scene_name>>]_vars

C4_Witness ==
    /\ press.fetch_err \in Errors
    /\ press.pc = "returned"
    /\ press.result = "ok"
    /\ StoredName = press.scene_name

\* C5 as stated: right after a successful attach that fetched l, the options
\* are the names of l in order; with l non-empty current_option and the map
\* entry are the name of l[1]; with l empty current_option and the map entry
\* hold no name.
C5_AttachDefaultsOriginal ==
    (last.op = "attach_ok") =>
        LET l == attach.scenes IN
        /\ Len(attr_options) = Len(l)
        /\ \A k \in 1..Len(l) : attr_options[k] = l[k].name
        /\ (Len(l) >= 1) => (current_option = l[1].name /\ StoredName = l[1].name)
        /\ (Len(l) = 0) => (current_option = None /\ StoredName = None)

\* C5 amended: a successful attach that fetched l leaves the options equal to
\* the names of l in order; with l non-empty current_option and the map entry
\* become the name of l[1]; with l empty no default is set: current_option
\* keeps the value it had before get_scenes returned and the map entry is
\* set to that value.
C5_AttachDefaults ==
    [][(attach.pc = "fetching" /\ attach'.pc = "attached") =>
        LET l == attach'.scenes IN
        /\ Len(attr_options') = Len(l)
        /\ \A k \in 1..Len(l) : attr_options'[k] = l[k].name
        /\ device_id \in DOMAIN selected_scenes'
        /\ (Len(l) >= 1) =>
              (selected_scene_name' = l[1].name
               /\ selected_scenes'[device_id] = l[1].name)
        /\ (Len(l) = 0) =>
              (selected_scene_name' = selected_scene_name
               /\ selected_scenes'[device_id] = selected_scene_name)]_vars

C5_Witness ==
    /\ last.op = "attach_ok"
    /\ Len(attach.scenes) = 2
    /\ attach.scenes[1].name # attach.scenes[2].name
    /\ attr_options = <<attach.scenes[1].name, attach.scenes[2].name>>
    /\ current_option = attach.scenes[1].name
    /\ StoredName = attach.scenes[1].name

\* C6: right after async_select_option(s), for any string s, in the options
\* or not, current_option is s and the map records s for the device.
C6_SelectStoresVerbatim ==
    (last.op = "select") =>
        /\ current_option = last.arg
        /\ device_id \in DOMAIN selected_scenes
        /\ selected_scenes[device_id] = last.arg

C6_Witness ==
    /\ last.op = "select"
    /\ attach.pc = "attached"
    /\ attr_options # <<>>
    /\ \A k \in 1..Len(attr_options) : attr_options[k] # last.arg
    /\ current_option = last.arg
    /\ StoredName = last.arg

\* C7: the identifier a press passes to execute_scene is that of the first
\* scene of the fetched list whose name is the stored name, never that of a
\* later scene of the same name.
C7_FirstMatchWins ==
    (press.calls # <<>>) =>
        \E k \in 1..Len(press.scenes) :
            /\ IsFirstMatch(press.scenes, press.scene_name, k)
            /\ press.calls = <<ToInt(press.scenes[k].id)>>

C7_Witness ==
    /\ press.calls # <<>>
    /\ \E j, k \in 1..Len(press.scenes) :
          /\ j < k
          /\ press.scenes[j].name = press.scene_name
          /\ press.scenes[k].name = press.scene_name
          /\ ToInt(press.scenes[j].id) # ToInt(press.scenes[k].id)
          /\ press.calls = <<ToInt(press.scenes[j].id)>>

\* C8: when get_scenes raises during the attach, the attach raises that
\* error and the options, current_option and the map are left as they were.
C8_AttachErrorPropagates ==
    [][(attach.pc = "fetching" /\ attach'.pc = "failed") =>
        /\ attach'.result \in Errors
        /\ attach'.result = last'.arg
        /\ UNCHANGED <<sel_scenes, attr_options, selected_scene_name,
                       selected_scenes>>]_vars

C8_Witness ==
    /\ attach.pc = "failed"
    /\ attach.result \in Errors
    /\ attr_options = <<>>
    /\ device_id \notin DOMAIN selected_scenes

\* C9: in every state current_option equals the value the map yields for
\* the device.
C9_SelectorMatchesMap == current_option = StoredName

C9_Witness ==
    /\ attach.pc = "fetching"
    /\ last.op = "select"
    /\ current_option \in Strings
    /\ StoredName = current_option

\* C10: a press takes the stored name once, when it starts, keeps it until
\* it ends, and never writes the map; the scene it executes is one named by
\* that name, also when a later selection was stored meanwhile.
C10_PressUsesNameReadAtStart ==
    /\ [](press.calls # <<>> =>
            \E k \in 1..Len(press.scenes) :
                /\ press.scenes[k].name = press.scene_name
                /\ press.calls[1] = ToInt(press.scenes[k].id))
    /\ [][/\ (press.pc = "idle" /\ press'.pc # "idle") =>
                (press'.scene_name = StoredName)
          /\ (press.pc # "idle" /\ press'.pc # "idle") =>
                (press'.scene_name = press.scene_name)
          /\ (press' # press) => (selected_scenes' = selected_scenes)]_vars

C10_Witness ==
    /\ press.pc = "returned"
    /\ press.calls # <<>>
    /\ StoredName # press.scene_name
    /\ TruthyName(StoredName)
    /\ \E k \in 1..Len(press.scenes) :
          /\ press.scenes[k].name = StoredName
          /\ TruthyId(press.scenes[k].id)
          /\ press.calls[1] # ToInt(press.scenes[k].id)
====
